---- MODULE Spec2Model ----
(***************************************************************************)
(* A model of clip-catcher: the RingBuffer (lib/ringbuffer.py) and the     *)
(* Clipper with its capture thread, message queue and clip saving          *)
(* (lib/clip.py).                                                          *)
(*                                                                         *)
(* Two specifications share the variables:                                 *)
(*   SpecRing  a RingBuffer driven directly through add() and get();       *)
(*   Spec      a Clipper: caller threads calling clip() and stop(), and    *)
(*             the capture thread running _start().                        *)
(***************************************************************************)
EXTENDS Integers, Sequences, FiniteSets, TLC

\* ------------------------------------------------------------------ bounds

\* Largest RingBuffer size explored by SpecRing.
MaxCap == 4
\* Number of add() calls explored by SpecRing.
MaxAdds == 5
\* Number of frames the video source delivers in Spec.
MaxFrames == 3
\* Number of messages put on the Clipper's queue in Spec.
MaxCmds == 2
\* Largest buffer_size of a Clipper in Spec.
MaxBuf == 2

\* Sizes passed to RingBuffer(size, default): negative, zero and positive.
Sizes == (0 - 1)..MaxCap

\* Items added to the RingBuffer by SpecRing, and its default value.
Items == {"A", "B", "C", "D"}
Default == "P"

\* Indices passed to get(): below zero, in range, at and above the size.
Indices == (0 - 2)..(MaxCap + 2)

\* The default the Clipper fills its frame buffer with (Python None).
None == "None"

\* Caller threads of a Clipper.
Callers == {"c1", "c2"}

\* buffer_size values given to Clipper(): zero and positive.
BufferSizes == 0..MaxBuf

\* estimated_fps values. For these and the Durations below, Python's
\* round(length_ms / ((1 / fps) * 1000)) in double precision is the rounding of
\* the exact rational length_ms * fps / 1000.
FpsValues == {25, 30}

\* length_ms values given to clip().
Durations == {0 - 40, 0, 20, 60, 1000}

\* file_name values given to clip().
Files == {"x.mp4"}

\* Audio buffers evaluated in a run.
MaxEval == 3

\* Samples in one audio buffer (FRAMES_PER_BUFFER, 1024 in loudness.py).
FramesPerBuffer == 2

\* 16-bit samples: the least one, ordinary ones on both sides of zero.
Samples == {0 - 32768, 0 - 2501, 0, 2500, 2501}

\* Thresholds: that of main.py, and zero.
Thresholds == {0, 2500}

VARIABLES
    buffer,         \* RingBuffer.buffer: the slots, a sequence (slot k is buffer[k+1])
    endIndex,       \* RingBuffer.endIndex: slot of the newest item
    hist,           \* history: the items passed to add(), in order
    ret,            \* SpecRing: the last RingBuffer call and its outcome
    estimated_fps,  \* Clipper._estimated_fps
    thread,         \* Clipper._thread: None or the thread object
    msg_queue,      \* Clipper._msg_queue: messages not yet taken; with each, its
                    \* history: id (its rank among the messages put), by (the
                    \* thread that put it), taken (messages handled before the put)
    loop_pc,        \* the capture thread's position in _start
    nread,          \* frames the video source has delivered
    saved,          \* the clips written: <<[file, length_ms, indices, frames,
                    \* status]>> with the message's history and nread at saving;
                    \* frames are those passed to out.write(), and a clip whose
                    \* writing raised cv2.error is not among them
    processed,      \* history: ids of the messages taken from the queue, in order
    nput,           \* history: number of messages ever put on the queue
    caller_pc,      \* each caller thread's position
    releases,       \* number of video_capture.release() calls
    stops_returned, \* history: number of stop() calls that have returned
    last_call,      \* history: the last clip()/stop() call begun and its outcome
    exc,            \* the exception that ended the capture thread, or "none"
    last_read,      \* history: how the latest video_capture.read() ended
    threshold,      \* LoudnessDetector._threshold
    in_queue,       \* LoudnessDetector._in_queue
    out_queue,      \* LoudnessDetector.out_queue: the means put and not yet taken
    active,         \* LoudnessDetector._active
    det_pc,         \* the detector thread's position in _start
    stop_pc,        \* each caller's position in LoudnessDetector.stop()
    closes,         \* number of _stream.close() calls
    evaluated,      \* history: number of audio buffers read and evaluated
    loud,           \* history: number of those whose mean absolute amplitude
                    \* was above the threshold
    triggers,       \* history: number of means put on out_queue
    stop_put        \* history: where the detector thread was, and how many
                    \* buffers it had evaluated, when "stop" was first put

vars == <<buffer, endIndex, hist, ret, estimated_fps, thread, msg_queue, loop_pc,
          nread, saved, processed, nput, caller_pc, releases, stops_returned,
          last_call, exc, last_read, threshold, in_queue, out_queue, active,
          det_pc, stop_pc, closes, evaluated, loud, triggers, stop_put>>

loudVars == <<threshold, in_queue, out_queue, active, det_pc, stop_pc, closes,
              evaluated, loud, triggers, stop_put>>

clipperVars == <<estimated_fps, thread, msg_queue, loop_pc, nread, saved,
                 processed, nput, caller_pc, releases, stops_returned, last_call,
                 exc, last_read>>

\* ------------------------------------------------------------ Python helpers

Min(a, b) == IF a <= b THEN a ELSE b

\* Python: [default] * size. A size below 1 gives the empty list.
ListRepeat(default, size) == [k \in 1..(IF size > 0 THEN size ELSE 0) |-> default]

\* Python round() of the rational num / den (den > 0): to the nearest integer,
\* a tie to the even one. \div is floor division, as in Python.
PyRound(num, den) ==
    LET q == num \div den
        r == num % den
    IN  IF 2 * r < den THEN q
        ELSE IF 2 * r > den THEN q + 1
        ELSE IF q % 2 = 0 THEN q ELSE q + 1

\* ---------------------------------------------------------------- RingBuffer

\* RingBuffer.__init__: the fields after construction.
RB_init(size, default) ==
    LET b == ListRepeat(default, size)
    IN  [buffer |-> b, endIndex |-> Len(b) - 1]

\* A faulty add: writes the slot before advancing endIndex.
RB_add_writeBeforeAdvance(buf, end, item) ==
    IF Len(buf) = 0
    THEN [status |-> "ZeroDivisionError", buffer |-> buf, endIndex |-> end]
    ELSE [status |-> "ok", buffer |-> [buf EXCEPT ![end + 1] = item],
          endIndex |-> (end + 1) % Len(buf)]

\* RingBuffer.add: the fields after add(item), or the exception it raises.
\* With no slots the modulo raises ZeroDivisionError before any assignment.
RB_add(buf, end, item) ==
    IF Len(buf) = 0
    THEN [status |-> "ZeroDivisionError", buffer |-> buf, endIndex |-> end]
    ELSE LET e == (end + 1) % Len(buf)
         IN  [status |-> "ok", buffer |-> [buf EXCEPT ![e + 1] = item], endIndex |-> e]

\* A faulty range test: accepts index = len.
RB_outOfRange_offByOne(buf, index) == index < 0 \/ index > Len(buf)

\* The range test RingBuffer.get starts with.
RB_outOfRange(buf, index) == index < 0 \/ index >= Len(buf)

\* A faulty start index: endIndex itself instead of the slot after it.
RB_startIndex_atEnd(buf, end) == end % Len(buf)

\* RingBuffer.get's start_index: the slot right after endIndex.
RB_startIndex(buf, end) == (end + 1) % Len(buf)

\* RingBuffer.get: the value returned, or the exception raised.
RB_get(buf, end, index) ==
    IF RB_outOfRange(buf, index)
    THEN [status |-> "IndexError", value |-> None]
    ELSE IF Len(buf) = 0
    THEN [status |-> "ZeroDivisionError", value |-> None]
    ELSE LET start_index == RB_startIndex(buf, end)
             actual_index == (start_index + index) % Len(buf)
         IN  [status |-> "ok", value |-> buf[actual_index + 1]]

\* ------------------------------------------------- SpecRing: a RingBuffer alone

\* No LoudnessDetector has been constructed.
LoudIdle ==
    /\ threshold = 0
    /\ in_queue = <<>>
    /\ out_queue = <<>>
    /\ active = FALSE
    /\ det_pc = "none"
    /\ stop_pc = [c \in Callers |-> "idle"]
    /\ closes = 0
    /\ evaluated = 0
    /\ loud = 0
    /\ triggers = 0
    /\ stop_put = [pc |-> "none"]

ClipperIdle ==
    /\ estimated_fps = 25
    /\ thread = None
    /\ msg_queue = <<>>
    /\ loop_pc = "none"
    /\ nread = 0
    /\ saved = <<>>
    /\ processed = <<>>
    /\ nput = 0
    /\ caller_pc = [c \in Callers |-> "idle"]
    /\ releases = 0
    /\ stops_returned = 0
    /\ last_call = [op |-> "none"]
    /\ exc = "none"
    /\ last_read = "none"

\* RingBuffer(size, Default) for a size of Sizes.
InitRing ==
    /\ \E size \in Sizes :
         /\ buffer = RB_init(size, Default).buffer
         /\ endIndex = RB_init(size, Default).endIndex
         /\ ret = [op |-> "init", status |-> "ok", size |-> size]
    /\ hist = <<>>
    /\ ClipperIdle
    /\ LoudIdle

\* A call add(item).
Ring_add(item) ==
    /\ Len(hist) < MaxAdds
    /\ LET r == RB_add(buffer, endIndex, item)
       IN  /\ buffer' = r.buffer
           /\ endIndex' = r.endIndex
           /\ hist' = IF r.status = "ok" THEN Append(hist, item) ELSE hist
           /\ ret' = [op |-> "add", status |-> r.status, item |-> item]
    /\ UNCHANGED clipperVars
    /\ UNCHANGED loudVars

\* A call get(index).
Ring_get(index) ==
    /\ LET r == RB_get(buffer, endIndex, index)
       IN  ret' = [op |-> "get", status |-> r.status, index |-> index,
                   value |-> r.value]
    /\ UNCHANGED <<buffer, endIndex, hist>>
    /\ UNCHANGED clipperVars
    /\ UNCHANGED loudVars

NextRing ==
    \/ \E item \in Items : Ring_add(item)
    \/ \E index \in Indices : Ring_get(index)

SpecRing == InitRing /\ [][NextRing]_vars

\* ------------------------------------------------------------------- Clipper

\* Clipper.__init__: _ms_per_frame = (1 / estimated_fps) * 1000, kept as the
\* rational num / den.
MsPerFrame(fps) == [num |-> 1000, den |-> fps]

\* Clipper.is_active.
is_active == thread # None

\* _save_clip: round(length_ms / self._ms_per_frame).
FramesWanted(length_ms, fps) ==
    PyRound(length_ms * MsPerFrame(fps).den, MsPerFrame(fps).num)

\* A faulty num_frames: not clamped to the buffer length.
NumFrames_unclamped(length_ms, fps, len) == FramesWanted(length_ms, fps)

\* _save_clip: num_frames = min(round(...), len(self._frame_buffer)).
NumFrames(length_ms, fps, len) == Min(FramesWanted(length_ms, fps), len)

\* A faulty start_frame: taken from the rounded count before it is clamped.
StartFrame_fromWanted(length_ms, fps, len) == len - FramesWanted(length_ms, fps)

\* A faulty start_frame: one frame too early.
StartFrame_oneEarlier(length_ms, fps, len) ==
    len - NumFrames(length_ms, fps, len) - 1

\* _save_clip: start_frame = len(self._frame_buffer) - num_frames.
StartFrame(length_ms, fps, len) == len - NumFrames(length_ms, fps, len)

\* A faulty range: the first num_frames indices instead of the last.
ClipIndices_fromZero(length_ms, fps, len) ==
    LET n == IF NumFrames(length_ms, fps, len) > 0
             THEN NumFrames(length_ms, fps, len) ELSE 0
    IN  [k \in 1..n |-> k - 1]

\* _save_clip: the indices of range(start_frame, len), in order.
ClipIndices(length_ms, fps, len) ==
    LET start_frame == StartFrame(length_ms, fps, len)
        n == IF len > start_frame THEN len - start_frame ELSE 0
    IN  [k \in 1..n |-> start_frame + k - 1]

\* _save_clip: the clip written. Each frame is fetched with get(i) and written
\* in turn; a get() that raises ends the writing and the exception leaves
\* _save_clip.
SaveClip(buf, end, fps, length_ms, file) ==
    LET idx == ClipIndices(length_ms, fps, Len(buf))
        got == [k \in 1..Len(idx) |-> RB_get(buf, end, idx[k])]
        bad == {k \in 1..Len(idx) : got[k].status # "ok"}
        n == IF bad = {} THEN Len(idx)
             ELSE (CHOOSE k \in bad : \A j \in bad : k <= j) - 1
    IN  [status |-> IF bad = {} THEN "ok" ELSE "IndexError",
         clip |-> [file |-> file, length_ms |-> length_ms,
                   status |-> IF bad = {} THEN "ok" ELSE "IndexError",
                   indices |-> SubSeq(idx, 1, n),
                   frames |-> [k \in 1..n |-> got[k].value]]]

\* A faulty get: takes the newest message instead of the oldest.
QueueGet_newest(q) == [msg |-> q[Len(q)], rest |-> SubSeq(q, 1, Len(q) - 1)]

\* _start: self._msg_queue.get(False) on a queue that is not empty: the oldest
\* message is returned and removed.
QueueGet(q) == [msg |-> Head(q), rest |-> Tail(q)]

\* The state after Clipper(video_capture, buffer_size, estimated_fps) has
\* returned: the frame buffer filled with None, the queue empty, the thread
\* started.
Init ==
    /\ \E buffer_size \in BufferSizes :
         /\ buffer = RB_init(buffer_size, None).buffer
         /\ endIndex = RB_init(buffer_size, None).endIndex
    /\ estimated_fps \in FpsValues
    /\ hist = <<>>
    /\ ret = [op |-> "none"]
    /\ thread = "Thread"
    /\ msg_queue = <<>>
    /\ loop_pc = "read"
    /\ nread = 0
    /\ saved = <<>>
    /\ processed = <<>>
    /\ nput = 0
    /\ caller_pc = [c \in Callers |-> "idle"]
    /\ releases = 0
    /\ stops_returned = 0
    /\ last_call = [op |-> "none"]
    /\ exc = "none"
    /\ last_read = "none"
    /\ LoudIdle

\* A faulty message: the duration is left out (zero).
ClipMessage_noLength(length_ms, file_name) ==
    [kind |-> "clip", length_ms |-> 0, file_name |-> file_name]

\* _ClipMessage(length_ms, file_name).
ClipMessage(length_ms, file_name) ==
    [kind |-> "clip", length_ms |-> length_ms, file_name |-> file_name]

\* Clipper.clip(length_ms, file_name) called by thread c.
Clip(c, length_ms, file_name) ==
    /\ caller_pc[c] = "idle"
    /\ nput < MaxCmds
    /\ IF ~is_active
       THEN /\ last_call' = [op |-> "clip", caller |-> c,
                             after_stop |-> stops_returned >= 1,
                             raised |-> TRUE, enq |-> 0]
            /\ UNCHANGED <<msg_queue, nput>>
       ELSE /\ msg_queue' = Append(msg_queue,
                               ClipMessage(length_ms, file_name) @@
                               [id |-> nput + 1, by |-> c,
                                taken |-> Len(processed)])
            /\ nput' = nput + 1
            /\ last_call' = [op |-> "clip", caller |-> c,
                             after_stop |-> stops_returned >= 1,
                             raised |-> FALSE, enq |-> 1]
    /\ UNCHANGED <<buffer, endIndex, hist, ret, estimated_fps, thread, loop_pc,
                   nread, saved, processed, caller_pc, releases, stops_returned,
                   exc, last_read>>
    /\ UNCHANGED loudVars

\* Clipper.stop() called by thread c, up to the join.
Stop(c) ==
    /\ caller_pc[c] = "idle"
    /\ nput < MaxCmds
    /\ IF ~is_active
       THEN /\ last_call' = [op |-> "stop", caller |-> c,
                             after_stop |-> stops_returned >= 1,
                             raised |-> FALSE, enq |-> 0]
            /\ UNCHANGED <<msg_queue, nput, caller_pc>>
       ELSE /\ msg_queue' = Append(msg_queue,
                               [kind |-> "stop", id |-> nput + 1,
                                by |-> c, taken |-> Len(processed)])
            /\ nput' = nput + 1
            /\ caller_pc' = [caller_pc EXCEPT ![c] = "join"]
            /\ last_call' = [op |-> "stop", caller |-> c,
                             after_stop |-> stops_returned >= 1,
                             raised |-> FALSE, enq |-> 1]
    /\ UNCHANGED <<buffer, endIndex, hist, ret, estimated_fps, thread, loop_pc,
                   nread, saved, processed, releases, stops_returned,
                   exc, last_read>>
    /\ UNCHANGED loudVars

\* A faulty join: returns without waiting.
ThreadEnded_noWait(pc) == TRUE

\* Thread.join() returns once the thread has ended, by returning from _start
\* or by an exception leaving it.
ThreadEnded(pc) == pc \in {"done", "crashed"}

\* stop(): self._thread.join() returns once the capture thread has ended.
StopJoin(c) ==
    /\ caller_pc[c] = "join"
    /\ ThreadEnded(loop_pc)
    /\ caller_pc' = [caller_pc EXCEPT ![c] = "release"]
    /\ UNCHANGED <<buffer, endIndex, hist, ret, estimated_fps, thread, msg_queue,
                   loop_pc, nread, saved, processed, nput, releases,
                   stops_returned, last_call,
                   exc, last_read>>
    /\ UNCHANGED loudVars

\* stop(): self._video_capture.release(), then the call returns.
StopRelease(c) ==
    /\ caller_pc[c] = "release"
    /\ releases' = releases + 1
    /\ stops_returned' = stops_returned + 1
    /\ caller_pc' = [caller_pc EXCEPT ![c] = "idle"]
    /\ UNCHANGED <<buffer, endIndex, hist, ret, estimated_fps, thread, msg_queue,
                   loop_pc, nread, saved, processed, nput, last_call,
                   exc, last_read>>
    /\ UNCHANGED loudVars

\* _start: video_capture.read() returns ret = False; the loop continues.
ReadFail ==
    /\ loop_pc = "read"
    /\ last_read' = "fail"
    /\ UNCHANGED <<buffer, endIndex, hist, ret, estimated_fps, thread, msg_queue,
                   loop_pc, nread, saved, processed, nput, caller_pc, releases,
                   stops_returned, last_call, exc>>
    /\ UNCHANGED loudVars

\* _start: video_capture.read() returns a frame, which is added to the frame
\* buffer. Frames are numbered in the order they are read. A released
\* cv2.VideoCapture delivers no frame.
ReadFrame ==
    /\ loop_pc = "read"
    /\ releases = 0
    /\ nread < MaxFrames
    /\ nread' = nread + 1
    /\ LET r == RB_add(buffer, endIndex, nread + 1)
       IN  /\ buffer' = r.buffer
           /\ endIndex' = r.endIndex
           /\ hist' = IF r.status = "ok" THEN Append(hist, nread + 1) ELSE hist
           /\ loop_pc' = IF r.status = "ok" THEN "get" ELSE "crashed"
           /\ exc' = IF r.status = "ok" THEN exc ELSE r.status
    /\ last_read' = "ok"
    /\ UNCHANGED <<ret, estimated_fps, thread, msg_queue, saved, processed, nput,
                   caller_pc, releases, stops_returned, last_call>>
    /\ UNCHANGED loudVars

\* _start: msg_queue.get(False) raises Empty; the loop continues.
GetEmpty ==
    /\ loop_pc = "get"
    /\ msg_queue = <<>>
    /\ loop_pc' = "read"
    /\ UNCHANGED <<buffer, endIndex, hist, ret, estimated_fps, thread, msg_queue,
                   nread, saved, processed, nput, caller_pc, releases,
                   stops_returned, last_call,
                   exc, last_read>>
    /\ UNCHANGED loudVars

\* What writing a clip with cv2.VideoWriter can do: every out.write() returns,
\* or, when there is a frame to write, one raises cv2.error (as out.write(None)
\* does).
EncodeOutcomes == {"ok", "cv2.error"}

\* _start: msg_queue.get(False) returns the oldest message, which is handled:
\* a stop message ends the loop, a clip message is saved, any other raises.
\* Only Empty is caught: any exception leaving _save_clip ends the thread.
GetMessage ==
    /\ loop_pc = "get"
    /\ msg_queue # <<>>
    /\ LET msg == QueueGet(msg_queue).msg
       IN  /\ msg_queue' = QueueGet(msg_queue).rest
           /\ processed' = Append(processed, msg.id)
           /\ IF msg.kind = "stop"
              THEN /\ loop_pc' = "done"
                   /\ saved' = saved
                   /\ exc' = exc
              ELSE IF msg.kind = "clip"
              THEN \E enc \in EncodeOutcomes :
                   LET s == SaveClip(buffer, endIndex, estimated_fps,
                                     msg.length_ms, msg.file_name)
                   IN  IF s.status = "ok" /\ enc # "ok" /\ Len(s.clip.frames) >= 1
                       THEN /\ saved' = saved
                            /\ loop_pc' = "crashed"
                            /\ exc' = enc
                       ELSE /\ saved' = Append(saved,
                                           s.clip @@ [id |-> msg.id, by |-> msg.by,
                                                      taken |-> msg.taken,
                                                      nread |-> nread])
                            /\ loop_pc' = IF s.status = "ok" THEN "read" ELSE "crashed"
                            /\ exc' = IF s.status = "ok" THEN exc ELSE s.status
              ELSE /\ loop_pc' = "crashed"
                   /\ saved' = saved
                   /\ exc' = "Unknown message type"
    /\ UNCHANGED <<buffer, endIndex, hist, ret, estimated_fps, thread, nread,
                   nput, caller_pc, releases, stops_returned, last_call,
                   last_read>>
    /\ UNCHANGED loudVars

Next ==
    \/ \E c \in Callers : \E length_ms \in Durations : \E file_name \in Files :
          Clip(c, length_ms, file_name)
    \/ \E c \in Callers : Stop(c)
    \/ \E c \in Callers : StopJoin(c)
    \/ \E c \in Callers : StopRelease(c)
    \/ ReadFail
    \/ ReadFrame
    \/ GetEmpty
    \/ GetMessage

Spec == Init /\ [][Next]_vars

\* ------------------------------------------- SpecLoud: a LoudnessDetector alone

\* abs() on a 16-bit sample (np.abs on an int16 array): the result is kept in
\* 16 bits, so the absolute value of -32768 wraps to -32768.
Abs16(x) ==
    LET a == IF x < 0 THEN 0 - x ELSE x
    IN  ((a + 32768) % 65536) - 32768

\* The absolute value of a sample as a number.
AbsAmplitude(x) == IF x < 0 THEN 0 - x ELSE x

RECURSIVE SumOf(_, _)
SumOf(f, n) == IF n = 0 THEN 0 ELSE f[n] + SumOf(f, n - 1)

\* np.mean(np.abs(audio_array)), as the fraction num / den.
MeanAbs(data) ==
    [num |-> SumOf([i \in 1..FramesPerBuffer |-> Abs16(data[i])], FramesPerBuffer),
     den |-> FramesPerBuffer]

\* The mean absolute amplitude of a buffer, as the fraction num / den.
MeanAbsAmplitude(data) ==
    [num |-> SumOf([i \in 1..FramesPerBuffer |-> AbsAmplitude(data[i])],
                   FramesPerBuffer),
     den |-> FramesPerBuffer]

\* _start: mean > self._threshold.
IsLoud(mean, thr) == mean.num > thr * mean.den

\* The clipper and the ring buffer are not in use.
InitLoud ==
    /\ buffer = <<>>
    /\ endIndex = 0 - 1
    /\ hist = <<>>
    /\ ret = [op |-> "none"]
    /\ ClipperIdle
    /\ threshold \in Thresholds
    /\ in_queue = <<>>
    /\ out_queue = <<>>
    /\ active = TRUE
    /\ det_pc = "read"
    /\ stop_pc = [c \in Callers |-> "idle"]
    /\ closes = 0
    /\ evaluated = 0
    /\ loud = 0
    /\ triggers = 0
    /\ stop_put = [pc |-> "none"]

\* _start: one buffer is read and its mean compared with the threshold; a loud
\* one is put on out_queue and the thread goes to sleep.
LD_Read ==
    /\ det_pc = "read"
    /\ evaluated < MaxEval
    /\ \E data \in [1..FramesPerBuffer -> Samples] :
         LET mean == MeanAbs(data)
         IN  /\ evaluated' = evaluated + 1
             /\ loud' = IF IsLoud(MeanAbsAmplitude(data), threshold)
                        THEN loud + 1 ELSE loud
             /\ IF IsLoud(mean, threshold)
                THEN /\ out_queue' = Append(out_queue, mean)
                     /\ triggers' = triggers + 1
                     /\ det_pc' = "sleep"
                ELSE /\ out_queue' = out_queue
                     /\ triggers' = triggers
                     /\ det_pc' = "get"
    /\ UNCHANGED <<threshold, in_queue, active, stop_pc, closes, stop_put>>
    /\ UNCHANGED <<buffer, endIndex, hist, ret>>
    /\ UNCHANGED clipperVars

\* _start: time.sleep(self._buffer_ms / 1000) returns.
LD_Wake ==
    /\ det_pc = "sleep"
    /\ det_pc' = "get"
    /\ UNCHANGED <<threshold, in_queue, out_queue, active, stop_pc, closes,
                   evaluated, loud, triggers, stop_put>>
    /\ UNCHANGED <<buffer, endIndex, hist, ret>>
    /\ UNCHANGED clipperVars

\* _start: self._in_queue.get(False): Empty continues the loop, "stop" breaks
\* it, anything else raises.
LD_Get ==
    /\ det_pc = "get"
    /\ IF in_queue = <<>>
       THEN /\ det_pc' = "read"
            /\ in_queue' = in_queue
       ELSE /\ det_pc' = IF Head(in_queue) = "stop" THEN "done" ELSE "crashed"
            /\ in_queue' = Tail(in_queue)
    /\ UNCHANGED <<threshold, out_queue, active, stop_pc, closes, evaluated,
                   loud, triggers, stop_put>>
    /\ UNCHANGED <<buffer, endIndex, hist, ret>>
    /\ UNCHANGED clipperVars

\* stop(): the test of self._active; an inactive detector returns at once.
LD_StopBegin(c) ==
    /\ stop_pc[c] = "idle"
    /\ stop_pc' = [stop_pc EXCEPT ![c] = IF active THEN "put" ELSE "idle"]
    /\ UNCHANGED <<threshold, in_queue, out_queue, active, det_pc, closes,
                   evaluated, loud, triggers, stop_put>>
    /\ UNCHANGED <<buffer, endIndex, hist, ret>>
    /\ UNCHANGED clipperVars

\* stop(): self._active = False; self._in_queue.put("stop").
LD_StopPut(c) ==
    /\ stop_pc[c] = "put"
    /\ active' = FALSE
    /\ in_queue' = Append(in_queue, "stop")
    /\ stop_put' = IF stop_put.pc = "none"
                   THEN [pc |-> det_pc, evaluated |-> evaluated]
                   ELSE stop_put
    /\ stop_pc' = [stop_pc EXCEPT ![c] = "join"]
    /\ UNCHANGED <<threshold, out_queue, det_pc, closes, evaluated, loud,
                   triggers>>
    /\ UNCHANGED <<buffer, endIndex, hist, ret>>
    /\ UNCHANGED clipperVars

\* stop(): self._thread.join() returns once the detector thread has ended.
LD_StopJoin(c) ==
    /\ stop_pc[c] = "join"
    /\ ThreadEnded(det_pc)
    /\ stop_pc' = [stop_pc EXCEPT ![c] = "close"]
    /\ UNCHANGED <<threshold, in_queue, out_queue, active, det_pc, closes,
                   evaluated, loud, triggers, stop_put>>
    /\ UNCHANGED <<buffer, endIndex, hist, ret>>
    /\ UNCHANGED clipperVars

\* stop(): the stream is stopped and closed, PyAudio terminated.
LD_StopClose(c) ==
    /\ stop_pc[c] = "close"
    /\ closes' = closes + 1
    /\ stop_pc' = [stop_pc EXCEPT ![c] = "idle"]
    /\ UNCHANGED <<threshold, in_queue, out_queue, active, det_pc, evaluated,
                   loud, triggers, stop_put>>
    /\ UNCHANGED <<buffer, endIndex, hist, ret>>
    /\ UNCHANGED clipperVars

\* main.py: msg = loudness_detector.out_queue.get() takes the oldest mean.
OutQueueGet ==
    /\ out_queue # <<>>
    /\ out_queue' = Tail(out_queue)
    /\ UNCHANGED <<threshold, in_queue, active, det_pc, stop_pc, closes,
                   evaluated, loud, triggers, stop_put>>
    /\ UNCHANGED <<buffer, endIndex, hist, ret>>
    /\ UNCHANGED clipperVars

NextLoud ==
    \/ LD_Read
    \/ LD_Wake
    \/ LD_Get
    \/ \E c \in Callers : LD_StopBegin(c)
    \/ \E c \in Callers : LD_StopPut(c)
    \/ \E c \in Callers : LD_StopJoin(c)
    \/ \E c \in Callers : LD_StopClose(c)
    \/ OutQueueGet

SpecLoud == InitLoud /\ [][NextLoud]_vars

\* ------------------------------------------------------- RingBuffer properties

\* What get(i) is to return after the add() calls of hist: element i of the
\* last C elements of (Default repeated C times) followed by hist.
Expected(i) ==
    LET padded == [k \in 1..Len(buffer) |-> Default] \o hist
    IN  padded[Len(hist) + 1 + i]

\* C1: for a buffer of capacity C >= 1, after any sequence of add() calls,
\* get(i) for every 0 <= i < C returns the i-th of the last C elements of the
\* default repeated C times followed by the items added; a get() call made
\* returned exactly that.
C1_GetReturnsLastC ==
    Len(buffer) >= 1 =>
        /\ \A i \in 0..(Len(buffer) - 1) :
             RB_get(buffer, endIndex, i) = [status |-> "ok", value |-> Expected(i)]
        /\ (Len(hist) >= 1 =>
              RB_get(buffer, endIndex, Len(buffer) - 1).value = hist[Len(hist)])
        /\ (ret.op = "get" /\ ret.index \in 0..(Len(buffer) - 1) =>
              ret.status = "ok" /\ ret.value = Expected(ret.index))

\* C1 witness: capacity 4, five items added (one overwritten), get(0) returned
\* the second item.
C1_Witness ==
    /\ Len(buffer) = 4
    /\ hist = <<"A", "B", "C", "D", "A">>
    /\ ret.op = "get" /\ ret.index = 0 /\ ret.value = "B"

\* C2 as stated: once more than C items were added, get(0) returns the item
\* added exactly C calls before the most recent add().
C2_Original ==
    (Len(buffer) >= 1 /\ Len(hist) > Len(buffer)) =>
        RB_get(buffer, endIndex, 0).value = hist[Len(hist) - Len(buffer)]

\* C2 amended: once more than C items were added, get(0) returns the item
\* added exactly C - 1 calls before the most recent add() (the oldest of the
\* last C items).
C2_GetZeroIsOldestRetained ==
    (Len(buffer) >= 1 /\ Len(hist) > Len(buffer)) =>
        RB_get(buffer, endIndex, 0) =
            [status |-> "ok", value |-> hist[Len(hist) - Len(buffer) + 1]]

\* C2 witness: more items than slots, get(0) returned the oldest retained item,
\* which differs from the one added C calls before the newest.
C2_Witness ==
    /\ Len(buffer) >= 2
    /\ Len(hist) > Len(buffer)
    /\ ret.op = "get" /\ ret.index = 0 /\ ret.status = "ok"
    /\ ret.value = hist[Len(hist) - Len(buffer) + 1]
    /\ ret.value # hist[Len(hist) - Len(buffer)]

\* C3: get(index) raises IndexError for every index < 0 and every index >= C,
\* whatever was added before, and the call leaves the slots and endIndex
\* unchanged.
C3_GetOutOfRangeRaises ==
    [][ (ret'.op = "get" /\ (ret'.index < 0 \/ ret'.index >= Len(buffer))) =>
            /\ ret'.status = "IndexError"
            /\ buffer' = buffer
            /\ endIndex' = endIndex ]_vars

\* C3 witness: after some add() calls, get(C) on a buffer of C >= 1 slots raised
\* IndexError.
C3_Witness ==
    /\ Len(buffer) >= 1
    /\ Len(hist) >= 1
    /\ ret.op = "get" /\ ret.index = Len(buffer) /\ ret.status = "IndexError"

\* C4: constructing a RingBuffer with a size below 1 fails, and no buffer
\* with zero slots exists.
C4_ConstructionRejectsSizeBelowOne ==
    /\ (ret.op = "init" /\ ret.size < 1 => ret.status # "ok")
    /\ Len(buffer) >= 1

\* ---------------------------------------------------------- Clipper properties

\* C5: a clip() call made after a stop() has returned raises the inactive
\* error and puts nothing on the queue.
C5_ClipAfterStopRaises ==
    (last_call.op = "clip" /\ last_call.after_stop) =>
        (last_call.raised /\ last_call.enq = 0)

\* C6: once a stop() has returned, is_active() is false, and a further stop()
\* raises nothing, puts no stop message on the queue and returns at once
\* without joining or releasing again.
C6_SecondStopIsNoOp ==
    /\ (stops_returned >= 1 => ~is_active)
    /\ (last_call.op = "stop" /\ last_call.after_stop =>
          /\ ~last_call.raised
          /\ last_call.enq = 0
          /\ caller_pc[last_call.caller] = "idle")

\* C7: over any interleaving of clip() and stop() calls, release() is called
\* at most once in total, exactly once when a stop() has returned, and only
\* from stop().
C7_ReleasedAtMostOnce ==
    /\ releases <= 1
    /\ (stops_returned >= 1 => releases = 1)

\* w is num / den (den > 0) rounded to the nearest integer, a tie to the even one.
IsRounded(w, num, den) ==
    LET diff == IF w * den >= num THEN w * den - num ELSE num - w * den
    IN  \/ 2 * diff < den
        \/ (2 * diff = den /\ w % 2 = 0)

Retained(n) ==
    LET C == Len(buffer)
        padded == [k \in 1..C |-> None] \o [k \in 1..n |-> k]
    IN  [k \in 1..C |-> padded[n + k]]

\* C9: the frames written for a clip are the buffer entries at the indices
\* start .. C-1, start = C - num_frames, in ascending order: the num_frames
\* most recently retained entries when the clip message is handled, oldest
\* first, the last one being the frame added last.
C9_ClipIsNewestFramesInOrder ==
    \A k \in 1..Len(saved) :
        LET C == Len(buffer)
            n == Len(saved[k].frames)
            start == C - n
        IN  /\ saved[k].indices = [j \in 1..n |-> start + j - 1]
            /\ saved[k].frames = [j \in 1..n |-> Retained(saved[k].nread)[start + j]]
            /\ (n >= 1 => saved[k].frames[n] = saved[k].nread)
            /\ (saved[k].length_ms >= 0 =>
                  n = NumFrames(saved[k].length_ms, estimated_fps, C))

\* C9 witness: from a buffer of 2 slots that has wrapped around, a clip of two
\* frames holds the two newest frames, older first.
C9_Witness ==
    /\ Len(buffer) = 2
    /\ \E k \in 1..Len(saved) :
         /\ saved[k].nread = 3
         /\ saved[k].indices = <<0, 1>>
         /\ saved[k].frames = <<2, 3>>

\* C10: messages are handled in the order they were put on the queue, whichever
\* threads put them, and none is handled twice: the ids handled are 1, 2, ...
\* in order, and the queue holds the following ids in order.
C10_MessagesHandledInPutOrder ==
    /\ Len(processed) <= nput
    /\ processed = [k \in 1..Len(processed) |-> k]
    /\ \A k \in 1..Len(msg_queue) : msg_queue[k].id = Len(processed) + k

\* C10 witness: two clip messages put by different threads before either was
\* taken have both been handled, the one put first first.
C10_Witness ==
    /\ Len(saved) >= 2
    /\ saved[1].by # saved[2].by
    /\ saved[1].taken = 0 /\ saved[2].taken = 0
    /\ saved[1].id = 1 /\ saved[2].id = 2
    /\ processed = <<1, 2>>

\* C11: a failed frame read and a failed clip encode never end the capture
\* loop: a Clipper with at least one slot leaves the loop only by handling a
\* stop message or an unknown message, and a cv2.error raised while a clip is
\* written never ends the thread.
C11_LoopSurvivesFailures ==
    /\ (last_read = "fail" => loop_pc = "read")
    /\ exc # "cv2.error"
    /\ (Len(buffer) >= 1 /\ loop_pc \notin {"read", "get"} =>
          loop_pc = "done" \/ exc = "Unknown message type")

\* C12: when the stop message has been handled, every clip message put before
\* it has been saved completely; and stop() gets past the join, and returns,
\* only once the capture thread has ended.
C12_StopAfterPendingClips ==
    /\ (loop_pc = "done" =>
          /\ Len(processed) >= 1
          /\ \A id \in 1..(processed[Len(processed)] - 1) :
                \E k \in 1..Len(saved) : saved[k].id = id /\ saved[k].status = "ok")
    /\ \A c \in Callers :
          caller_pc[c] = "release" => loop_pc \in {"done", "crashed"}
    /\ (stops_returned >= 1 => loop_pc \in {"done", "crashed"})

\* C12 witness: a clip message and then a stop message were put; the clip was
\* saved, the stop message handled, and stop() has returned.
C12_Witness ==
    /\ loop_pc = "done"
    /\ processed = <<1, 2>>
    /\ Len(saved) = 1 /\ saved[1].id = 1 /\ Len(saved[1].frames) >= 1
    /\ stops_returned = 1

\* A message of the queue that is the second of two clip messages put back to
\* back as the first two messages, before the loop had taken any.
SecondClipPending ==
    \E k \in 1..Len(msg_queue) :
        /\ msg_queue[k].kind = "clip"
        /\ msg_queue[k].id = 2
        /\ msg_queue[k].taken = 0

\* C13: of two clip() calls made back to back before the capture loop has taken
\* either message, both clips are saved in the end: while the second is still
\* waiting the capture thread is running (and the first message was not a stop
\* message); each clip holds the newest entries of the buffer as it is when its
\* own message is handled, and the second is saved after at least one more
\* frame was read.
C13_BackToBackClipsBothSaved ==
    /\ (Len(buffer) >= 1 /\ SecondClipPending /\ loop_pc # "done" =>
          loop_pc \in {"read", "get"})
    /\ \A k \in 1..Len(saved) :
          saved[k].frames =
              [j \in 1..Len(saved[k].frames) |->
                  Retained(saved[k].nread)[Len(buffer) - Len(saved[k].frames) + j]]
    /\ (Len(saved) >= 2 => saved[2].nread > saved[1].nread)

\* Whether two buffer entries are the same, a frame being a number and None
\* not; whether an entry is None, or is frame n; whether two buffers are the
\* same.
SameEntry(x, y) == ToString(x) = ToString(y)

IsNone(x) == SameEntry(x, None)

IsFrame(x, n) == SameEntry(x, n)

SameBuffer(s, t) ==
    /\ Len(s) = Len(t)
    /\ \A i \in 1..Len(s) : SameEntry(s[i], t[i])

\* The step of a clip() call, as C14 describes it.
\* C14: clip() on an active Clipper appends exactly one clip message, carrying
\* the given length_ms and file_name, to the queue and returns at once (the
\* caller is idle again); it changes neither the frame buffer nor the active
\* state nor the capture thread's position; and it can be called whatever the
\* queue holds.
ClipStepAppendsOne ==
    \A c \in Callers : \A d \in Durations : \A f \in Files :
        (Clip(c, d, f) /\ is_active) =>
            /\ Len(msg_queue') = Len(msg_queue) + 1
            /\ SubSeq(msg_queue', 1, Len(msg_queue)) = msg_queue
            /\ msg_queue'[Len(msg_queue')].kind = "clip"
            /\ msg_queue'[Len(msg_queue')].length_ms = d
            /\ msg_queue'[Len(msg_queue')].file_name = f
            /\ caller_pc'[c] = "idle"
            /\ SameBuffer(buffer', buffer) /\ endIndex' = endIndex
            /\ thread' = thread
            /\ loop_pc' = loop_pc /\ processed' = processed
            /\ Len(saved') = Len(saved)

C14_ClipAppendsOneMessage ==
    /\ [][ClipStepAppendsOne]_vars
    /\ [](\A c \in Callers :
            (caller_pc[c] = "idle" /\ nput < MaxCmds) =>
                ENABLED Clip(c, 1000, "x.mp4"))

\* C14 witness: a clip() call has put its message behind one already waiting
\* and has returned, the capture thread not having moved.
C14_Witness ==
    /\ last_call.op = "clip" /\ ~last_call.raised
    /\ Len(msg_queue) = 2
    /\ msg_queue[2].kind = "clip" /\ msg_queue[2].length_ms = 1000
    /\ msg_queue[2].by = last_call.caller
    /\ caller_pc[last_call.caller] = "idle"
    /\ nread = 0

\* C15: for every clip message handled, whatever its length_ms (zero, more than
\* C frames, negative), every index passed to get() lies in 0..C-1 and no
\* IndexError leaves _save_clip.
C15_ClipIndicesInRange ==
    /\ \A k \in 1..Len(saved) :
          /\ saved[k].status = "ok"
          /\ \A j \in 1..Len(saved[k].indices) :
                saved[k].indices[j] >= 0 /\ saved[k].indices[j] < Len(buffer)
          /\ (saved[k].length_ms <= 0 => saved[k].indices = <<>>)
    /\ exc # "IndexError"

\* C15 witness: a clip of negative length and a clip wanting more frames than
\* the buffer holds have both been saved.
C15_Witness ==
    /\ Len(buffer) = 2
    /\ Len(saved) = 2
    /\ saved[1].length_ms = 0 - 40 /\ saved[1].indices = <<>>
    /\ saved[2].length_ms = 1000 /\ saved[2].indices = <<0, 1>>

\* No message on the queue is a stop message put by a stop() call still waiting
\* in join() unless the capture thread can still handle it, or a write raised.
StopMessageWillBeHandled ==
    \A k \in 1..Len(msg_queue) :
        (msg_queue[k].kind = "stop" /\ caller_pc[msg_queue[k].by] = "join") =>
            (loop_pc \in {"read", "get"} \/ exc = "cv2.error")

\* C16: when stop() is called on an active Clipper, reads keep succeeding and no
\* encode fails, the capture loop handles the stop message and ends, stop()
\* returns and the video source is released: a stop message waiting on the
\* queue always has a running capture thread to handle it, stop() returns only
\* with the source released, and the stop message is handled only in an
\* iteration whose read succeeded.
C16_StopIsHandled ==
    /\ StopMessageWillBeHandled
    /\ (stops_returned >= 1 => releases >= 1)
    /\ (loop_pc = "done" => last_read = "ok")

\* The kinds of step of the capture loop, as C17 describes them.
\* C17: an iteration whose read fails changes neither the frame buffer nor the
\* queue; an iteration whose read succeeds inserts exactly one frame, which
\* takes nothing off the queue, and goes on to the queue; a message is taken
\* off the queue one at a time, after a successful read; so the messages
\* handled never outnumber the frames inserted.
FailedReadStep ==
    (last_read' = "fail" /\ last_read # "fail") =>
        /\ SameBuffer(buffer', buffer) /\ endIndex' = endIndex /\ hist' = hist
        /\ msg_queue' = msg_queue /\ processed' = processed

SuccessfulReadStep ==
    (nread' = nread + 1) =>
        /\ hist' = Append(hist, nread + 1)
        /\ IsFrame(RB_get(buffer', endIndex', Len(buffer) - 1).value, nread + 1)
        /\ loop_pc' = "get"

InsertStep ==
    (~SameBuffer(buffer', buffer) \/ endIndex' # endIndex) =>
        /\ hist' = Append(hist, nread + 1)
        /\ IsFrame(RB_get(buffer', endIndex', Len(buffer) - 1).value, nread + 1)
        /\ \A i \in 0..(Len(buffer) - 2) :
              SameEntry(RB_get(buffer', endIndex', i).value,
                        RB_get(buffer, endIndex, i + 1).value)
        /\ last_read' = "ok"
        /\ msg_queue' = msg_queue /\ processed' = processed

DequeueStep ==
    (Len(msg_queue') < Len(msg_queue) \/ processed' # processed) =>
        /\ msg_queue' = Tail(msg_queue)
        /\ processed' = Append(processed, Head(msg_queue).id)
        /\ loop_pc = "get" /\ loop_pc' # "get"
        /\ SameBuffer(buffer', buffer) /\ hist' = hist

C17_OneFrameAtMostOneMessage ==
    /\ [][FailedReadStep]_vars
    /\ [][SuccessfulReadStep]_vars
    /\ [][InsertStep]_vars
    /\ [][DequeueStep]_vars
    /\ [](Len(processed) + (IF loop_pc = "get" THEN 1 ELSE 0) <= Len(hist))

\* The steps of the capture loop around release() and the thread's end, as
\* C18 describes them.
\* C18: the capture loop uses the video source (a read, or the width and height
\* queries of _save_clip) only before release(): release() is called only with
\* the capture thread ended; and once the thread has ended, by a stop message
\* or otherwise, it reads no further frame and handles no further message.
SourceUsedBeforeRelease ==
    (nread' # nread \/ last_read' # last_read \/ processed' # processed) =>
        (releases = 0 /\ loop_pc \in {"read", "get"})

EndedThreadStaysEnded ==
    loop_pc \in {"done", "crashed"} =>
        /\ loop_pc' = loop_pc
        /\ nread' = nread /\ last_read' = last_read
        /\ SameBuffer(buffer', buffer) /\ processed' = processed
        /\ Len(saved') = Len(saved)

C18_NoUseAfterReleaseOrStop ==
    /\ []((releases >= 1 \/ \E c \in Callers : caller_pc[c] = "release") =>
             loop_pc \in {"done", "crashed"})
    /\ [][SourceUsedBeforeRelease]_vars
    /\ [][EndedThreadStaysEnded]_vars

\* C18 witness: two stop() calls have both returned, the stop message of the
\* first handled after a frame was read.
C18_Witness ==
    /\ releases = 2
    /\ loop_pc = "done"
    /\ processed = <<1>>
    /\ Len(msg_queue) = 1 /\ msg_queue[1].kind = "stop"
    /\ nread >= 1

\* C19: when a clip message is handled at least one frame has been inserted and
\* the newest buffer entry is the frame read in that iteration; a clip of n
\* frames handled after at least n frames were read holds no None, and one
\* handled after fewer holds None in its first n - nread places and frames after.
C19_PlaceholdersOnlyBeforeWarmUp ==
    /\ (loop_pc = "get" =>
          /\ nread >= 1
          /\ IsFrame(RB_get(buffer, endIndex, Len(buffer) - 1).value, nread))
    /\ \A k \in 1..Len(saved) :
          LET n == Len(saved[k].frames)
              w == NumFrames(saved[k].length_ms, estimated_fps, Len(buffer))
              r == saved[k].nread
          IN  /\ r >= 1
              /\ n = (IF w > 0 THEN w ELSE 0)
              /\ (n >= 1 => IsFrame(saved[k].frames[n], r))
              /\ (r >= n => \A j \in 1..n : ~IsNone(saved[k].frames[j]))
              /\ (r < n => \A j \in 1..n :
                              IsNone(saved[k].frames[j]) <=> (j <= n - r))

\* C19 witness: a clip of two frames saved after one frame was read starts with
\* None, and one saved after two frames were read holds two frames.
C19_Witness ==
    /\ Len(saved) = 2
    /\ saved[1].nread = 1 /\ saved[1].frames = <<None, 1>>
    /\ saved[2].nread = 2 /\ saved[2].frames = <<1, 2>>

\* Every mean put on out_queue came from a buffer that np.mean(np.abs(...))
\* found above the threshold, once each.
TriggersMatchComputedMean ==
    /\ \A k \in 1..Len(out_queue) : IsLoud(out_queue[k], threshold)
    /\ Len(out_queue) <= triggers
    /\ triggers <= evaluated

\* A "stop" put while the detector thread sleeps or polls is found by that
\* iteration's poll: no further buffer is evaluated.
StopInCooldownEndsLoop ==
    /\ (stop_put.pc \in {"sleep", "get"} => evaluated = stop_put.evaluated)
    /\ (stop_put.pc = "read" => evaluated <= stop_put.evaluated + 1)

\* C20: the means put on out_queue are as many as the evaluated buffers whose
\* mean absolute amplitude is greater than the threshold (one for each, none
\* for a mean at or below it); every value on out_queue is greater than the
\* threshold; and a stop requested during the sleep after a trigger ends the
\* loop at that iteration's poll, with no further buffer evaluated.
C20_OneTriggerPerLoudBuffer ==
    /\ triggers = loud
    /\ TriggersMatchComputedMean
    /\ StopInCooldownEndsLoop

====
